---------------------------- MODULE Spec2Model ----------------------------
(***************************************************************************)
(* A model of dalymi's pipeline engine (src/dalymi/pipeline.py): the task  *)
(* registry built by the input/output decorators, the completion and       *)
(* readiness predicates over the artifact store, the upstream/downstream   *)
(* traversals with their shared default "already_found" sets, the run loop *)
(* (sequential and pooled) and undo.                                       *)
(*                                                                         *)
(* A Resource is identified by its name; the artifact store is the set of  *)
(* resources whose artifact exists (Resource._check).  A Task is a record  *)
(* [name, func, input, output]; Pipeline.tasks, an insertion-ordered dict, *)
(* is a sequence of Task records with distinct names.                      *)
(***************************************************************************)
EXTENDS Integers, Sequences, FiniteSets, TLC

\* ------------------------------------------------------------------ bounds
\* Number of run/undo calls made on the pipeline in one process.
MaxCalls == 2
\* Number of task executions followed within one run call.
MaxExec == 4
\* Number of decorator applications / direct add_input, add_output calls.
MaxDecls == 3

\* ------------------------------------------------------------- vocabulary
None == "None"
Resources == {"r1", "r2", "r3", "r4"}
\* Argument tuples of the declarations explored one by one.
DeclNames == {"a", "b"}
DeclArgs == {<<>>, <<"r1">>, <<"r2">>, <<"r1", "r2">>}

Range(s) == {s[i] : i \in 1..Len(s)}

\* ------------------------------------------------------------------ state
VARIABLES
    tasks,                    \* Pipeline.tasks, in registration order
    exists,                   \* resources whose artifact exists
    already_found_upstream,   \* the default already_found of get_upstream
    already_found_downstream, \* the default already_found of get_downstream
    pc,                       \* "idle", or the run loop's position
    call,                     \* the arguments of the current/last call
    to_complete,              \* Pipeline.run: to_complete
    completed,                \* Pipeline.run: completed, as last computed
    submitted,                \* Pipeline.run: submitted
    futures,                  \* Pipeline.run: tasks of the futures dict
    jobs,                     \* work handed to executors, not yet reaped
    ncalls,                   \* number of run/undo calls made so far
    result,                   \* how the current/last call ended
    existsEnd,                \* the artifact store when the last call ended
    exists0,                  \* the artifact store when the call began
    executed,                 \* tasks started by the call, in order
    misbehaved,               \* (task, how) for tasks that raised or returned too few values
    deleted,                  \* artifacts deleted by the call
    prev,                     \* the call before: result, final store, started tasks
    decl,                     \* the last declaration and how it ended
    called,                   \* (task, side) pairs add_input/add_output ran on
    ndecls,                   \* number of declarations made so far
    wrapped,                  \* one task execution: the task and what its function returns
    files,                    \* one task execution: the content of each artifact
    at,                       \* one task execution: the position in Task.run
    events,                   \* one task execution: what has happened so far
    runs,                     \* two run calls in progress at once: each call's state
    unresolved,               \* resources whose location needs a key the context lacks
    dag                       \* a DAG (dalymi.dag), its call stack and its history

pipelineVars == <<tasks, exists, already_found_upstream, already_found_downstream>>
runVars == <<pc, call, to_complete, completed, submitted, futures, jobs>>
historyVars == <<ncalls, result, existsEnd, exists0, executed, misbehaved, deleted, prev>>
taskVars == <<wrapped, files, at, events>>
dagVars == <<dag>>

\* The DAG object: tasks_with_dependencies in decoration order and
\* finished_tasks; the call stack of DAG.run, innermost call last; the task
\* bodies started, returned and raised so far; the number of DAG.run calls.
tasks_with_dependencies == dag.tasks_with_dependencies
finished_tasks == dag.finished_tasks
frames == dag.frames
trace == dag.trace
ndagruns == dag.ndagruns
declVars == <<decl, called, ndecls, taskVars, runs, unresolved, dagVars>>
vars == <<pipelineVars, runVars, historyVars, declVars>>

\* ------------------------------------------------------------------- Task
\* Task.__init__: a task wrapping func, with empty input and output sets.
Task(name, func) == [name |-> name, func |-> func, input |-> {}, output |-> {}]

\* Task.add_input: rejected when the input set is already non-empty.
add_input(task, input) ==
    IF task.input # {}
    THEN [task |-> task, err |-> "ValueError"]
    ELSE [task |-> [task EXCEPT !.input = Range(input)], err |-> "none"]

\* Task.add_output: rejected when the output set is already non-empty.
add_output(task, output) ==
    IF task.output # {}
    THEN [task |-> task, err |-> "ValueError"]
    ELSE [task |-> [task EXCEPT !.output = Range(output)], err |-> "none"]

\* Task.complete / Task.ready against the artifact store ex.
\* (variant: one existing output is enough)
complete_some(task, ex) == task.output = {} \/ task.output \cap ex # {}
\* (variant: a task without outputs is never complete)
complete_nonempty(task, ex) == task.output # {} /\ task.output \subseteq ex
complete(task, ex) == \A resource \in task.output : resource \in ex
ready(task, ex) == \A resource \in task.input : resource \in ex

\* -------------------------------------------------- Pipeline: declarations
Registered(ts) == {ts[i].name : i \in 1..Len(ts)}
IndexOf(ts, name) == CHOOSE i \in 1..Len(ts) : ts[i].name = name
TaskOf(ts, name) == ts[IndexOf(ts, name)]

\* Pipeline.input(*input)(func): func is the identity of the new wrapper.
PipelineInput(ts, name, input, func) ==
    IF name \in Registered(ts)
    THEN [tasks |-> ts, err |-> "KeyError"]
    ELSE [tasks |-> Append(ts, add_input(Task(name, func), input).task),
          err |-> "none"]

\* Pipeline.output(*output)(func): an existing task gets the new wrapper
\* before add_output is tried; a new task is registered before add_output.
PipelineOutput(ts, name, output, func) ==
    IF name \in Registered(ts)
    THEN LET i == IndexOf(ts, name)
             rewrapped == [ts[i] EXCEPT !.func = func]
             res == add_output(rewrapped, output)
         IN  [tasks |-> [ts EXCEPT ![i] = res.task], err |-> res.err]
    ELSE LET res == add_output(Task(name, func), output)
         IN  [tasks |-> Append(ts, res.task), err |-> res.err]

\* A declaration script: the decorators of a pipeline definition, in the
\* order they are applied (an input decorator is the inner one).
In(name, input) == [kind |-> "input", name |-> name, res |-> input]
Out(name, output) == [kind |-> "output", name |-> name, res |-> output]

Declare(ts, d, func) ==
    IF d.kind = "input"
    THEN PipelineInput(ts, d.name, d.res, func).tasks
    ELSE PipelineOutput(ts, d.name, d.res, func).tasks

RECURSIVE BuildFrom(_, _, _)
BuildFrom(ts, script, k) ==
    IF k > Len(script) THEN ts
    ELSE BuildFrom(Declare(ts, script[k], k), script, k + 1)

Build(script) == BuildFrom(<<>>, script, 1)

\* The pipeline definitions the run and undo calls are explored on.
\* Chain:      a -> r1 -> b -> r2 -> c (c is a terminal consumer).
\* Split:      a -> (r1, r2); r1 -> b -> r3; (r2, r3) -> c -> r4.
\* Apart:      a -> r1 -> b -> r2, and c -> r3 on its own.
\* External:   r1 has no producer; r1 -> a -> r2 -> b -> r3; c -> r4.
\* Twice:      a -> r1 and b -> (r1, r2): two producers of r1;
\*             (r1, r2) -> c -> r3.
\* Cycle:      r2 -> a -> r1 -> b -> r2; c -> r3 on its own.
Chain == <<Out("a", <<"r1">>), In("b", <<"r1">>), Out("b", <<"r2">>),
           In("c", <<"r2">>)>>
Split == <<Out("a", <<"r1", "r2">>), In("b", <<"r1">>), Out("b", <<"r3">>),
           In("c", <<"r2", "r3">>), Out("c", <<"r4">>)>>
Apart == <<Out("a", <<"r1">>), In("b", <<"r1">>), Out("b", <<"r2">>),
           Out("c", <<"r3">>)>>
External == <<In("a", <<"r1">>), Out("a", <<"r2">>), In("b", <<"r2">>),
              Out("b", <<"r3">>), Out("c", <<"r4">>)>>
Twice == <<Out("a", <<"r1">>), Out("b", <<"r1", "r2">>), In("c", <<"r1", "r2">>),
           Out("c", <<"r3">>)>>
Cycle == <<In("a", <<"r2">>), Out("a", <<"r1">>), In("b", <<"r1">>),
           Out("b", <<"r2">>), Out("c", <<"r3">>)>>
Scripts == {Chain, Split, Apart, External, Twice, Cycle}

\* ------------------------------------------------ Pipeline: graph queries
ResourcesOf(ts) == UNION {ts[i].input \cup ts[i].output : i \in 1..Len(ts)}

\* Pipeline.get_completed / Pipeline.get_ready: over ALL registered tasks.
\* (variant: completion is taken from what this run has started itself)
get_completed_started(ts, ex) == Range(executed)
get_completed(ts, ex) == {ts[i].name : i \in {j \in 1..Len(ts) : complete(ts[j], ex)}}
\* (variant: readiness is not looked at)
get_ready_any(ts, ex) == Registered(ts)
get_ready(ts, ex) == {ts[i].name : i \in {j \in 1..Len(ts) : ready(ts[j], ex)}}

\* Pipeline.get_producer: the first task, in registration order, that has
\* the resource in its output; ValueError when there is none.
Producers(ts, resource) == {i \in 1..Len(ts) : resource \in ts[i].output}
HasProducer(ts, resource) == Producers(ts, resource) # {}
get_producer(ts, resource) ==
    LET i == CHOOSE i \in Producers(ts, resource) :
                 \A j \in Producers(ts, resource) : i <= j
    IN  ts[i].name

\* Pipeline.get_consumers
get_consumers(ts, resource) ==
    {ts[i].name : i \in {j \in 1..Len(ts) : resource \in ts[j].input}}

\* Python's recursion limit, scaled to the model: a call chain longer than
\* the number of tasks repeats a task, and since neither traversal looks at
\* already_found before it recurses, such a chain never ends.
RecursionLimit(ts) == Len(ts) + 1

\* Pipeline.get_upstream(task, already_found): the set of outcomes
\* [found, err], one per iteration order of the set input_producers.  found
\* is the content of the shared already_found set when the call ends.
\* (variant: the producers of the producers are not followed)
get_upstream_direct(ts, name, already_found, depth) ==
    IF \E resource \in TaskOf(ts, name).input : ~HasProducer(ts, resource)
    THEN {[found |-> already_found, err |-> "ValueError"]}
    ELSE {[found |-> already_found \cup
                     {get_producer(ts, resource) : resource \in TaskOf(ts, name).input},
           err |-> "none"]}
RECURSIVE get_upstream(_, _, _, _)
RECURSIVE WalkUp(_, _, _, _)
get_upstream(ts, name, already_found, depth) ==
    LET task == TaskOf(ts, name) IN
    IF depth > RecursionLimit(ts)
    THEN {[found |-> already_found, err |-> "RecursionError"]}
    ELSE IF \E resource \in task.input : ~HasProducer(ts, resource)
    THEN {[found |-> already_found, err |-> "ValueError"]}
    ELSE LET input_producers == {get_producer(ts, resource) : resource \in task.input}
         IN  WalkUp(ts, input_producers, already_found \cup input_producers, depth)
WalkUp(ts, todo, already_found, depth) ==
    IF todo = {} THEN {[found |-> already_found, err |-> "none"]}
    ELSE UNION {
           UNION {IF o.err # "none" THEN {o}
                  ELSE WalkUp(ts, todo \ {p}, o.found, depth)
                  : o \in get_upstream(ts, p, already_found, depth + 1)}
           : p \in todo}

\* Pipeline.get_downstream(task, already_found): as get_upstream, over the
\* consumers of the task's outputs (get_consumers never raises).
RECURSIVE get_downstream(_, _, _, _)
RECURSIVE WalkDown(_, _, _, _)
get_downstream(ts, name, already_found, depth) ==
    LET task == TaskOf(ts, name) IN
    IF depth > RecursionLimit(ts)
    THEN {[found |-> already_found, err |-> "RecursionError"]}
    ELSE LET output_consumers == UNION {get_consumers(ts, resource) : resource \in task.output}
         IN  WalkDown(ts, output_consumers, already_found \cup output_consumers, depth)
WalkDown(ts, todo, already_found, depth) ==
    IF todo = {} THEN {[found |-> already_found, err |-> "none"]}
    ELSE UNION {
           UNION {IF o.err # "none" THEN {o}
                  ELSE WalkDown(ts, todo \ {p}, o.found, depth)
                  : o \in get_downstream(ts, p, already_found, depth + 1)}
           : p \in todo}


NoCall == [op |-> "none", task |-> None, parallelism |-> "none", downstream |-> FALSE]
NoDecl == [kind |-> "none", name |-> None, res |-> <<>>, err |-> "none",
           repeat |-> FALSE, before |-> <<>>]

\* A process that has built no pipeline and made no call yet.
FreshCalls ==
    /\ already_found_upstream = {}
    /\ already_found_downstream = {}
    /\ pc = "idle"
    /\ call = NoCall
    /\ to_complete = {}
    /\ completed = {}
    /\ submitted = {}
    /\ futures = {}
    /\ jobs = {}
    /\ ncalls = 0
    /\ result = "none"
    /\ existsEnd = {}
    /\ exists0 = {}
    /\ executed = <<>>
    /\ misbehaved = {}
    /\ deleted = {}
    /\ prev = [call |-> NoCall, result |-> "none", existsEnd |-> {}, started |-> {}]
    /\ decl = NoDecl
    /\ called = {}
    /\ ndecls = 0

\* No single task execution is being followed.
NoTaskRun ==
    /\ wrapped = [input |-> <<>>, output |-> <<>>, order |-> <<>>,
                  returned |-> [tuple |-> TRUE, values |-> <<>>]]
    /\ files = <<>>
    /\ at = [pc |-> "none", i |-> 0]
    /\ events = [invoked |-> FALSE, err |-> "none", before |-> <<>>]

\* No two calls in progress at once are being followed.
NoRuns == runs = <<>>

\* The context of every call holds every key the location templates need.
Resolved == unresolved = {}

\* DAG() once the decorators of the module have run: nothing finished, no
\* call made.
NewDag(decorations) ==
    [tasks_with_dependencies |-> decorations, finished_tasks |-> <<>>,
     frames |-> <<>>, trace |-> <<>>, ndagruns |-> 0]

\* No DAG (dalymi.dag) has been created.
NoDag == dag = None

Fresh == FreshCalls /\ NoTaskRun /\ NoRuns /\ Resolved /\ NoDag

\* After the module defining the pipeline has been imported: the decorators
\* of one script have run, and any of the artifacts may already exist.
Init ==
    /\ \E script \in Scripts : tasks = Build(script)
    /\ exists \in SUBSET ResourcesOf(tasks)
    /\ Fresh

\* ------------------------------------------------------- task executions
\* Number of workers of the pool (context["workers"]).
MaxWorkers == 2

\* What one invocation of a task's wrapped function can do: return one value
\* per declared output ("ok", all outputs saved), return fewer values
\* ("short": zip stops early, so one output, whichever comes last in the
\* output set's iteration order, is not saved), or raise: while loading, in
\* the function, or in a save, after some of the outputs have been saved
\* (all of them, when the last save fails with its file already created).
Outcomes(task) ==
    {[kind |-> "ok", saved |-> task.output]}
    \cup {[kind |-> "short", saved |-> task.output \ {resource}] : resource \in task.output}
    \cup {[kind |-> "raise", saved |-> saved] : saved \in SUBSET task.output}

Misbehaves(o) == o.kind # "ok"

\* A deterministic listing of a set (history only).
RECURSIVE SeqOf(_)
SeqOf(S) == IF S = {} THEN <<>>
            ELSE LET x == CHOOSE x \in S : TRUE IN <<x>> \o SeqOf(S \ {x})

\* ------------------------------------------------------------ Pipeline.run
EndCall(res, ex) ==
    /\ pc' = "idle"
    /\ result' = res
    /\ existsEnd' = ex

BeginCall(c) ==
    /\ pc = "idle"
    /\ ncalls < MaxCalls
    /\ ncalls' = ncalls + 1
    /\ call' = c
    /\ prev' = [call |-> call, result |-> result, existsEnd |-> existsEnd,
                started |-> Range(executed)]
    /\ exists0' = exists
    /\ executed' = <<>>
    /\ misbehaved' = {}
    /\ completed' = {}
    /\ submitted' = {}
    /\ futures' = {}
    \* the executor of an earlier call is garbage once its work is done
    /\ jobs' = {j \in jobs : j.st # "done"}

\* Pipeline.run up to the loop: the closure to_complete.
RunCall(task, parallelism) ==
    /\ BeginCall([op |-> "run", task |-> task, parallelism |-> parallelism,
                  downstream |-> FALSE])
    /\ deleted' = {}
    /\ IF task # None
       THEN \E o \in get_upstream(tasks, task, already_found_upstream, 1) :
              /\ already_found_upstream' = o.found
              /\ IF o.err = "none"
                 THEN /\ to_complete' = {task} \cup o.found
                      /\ pc' = "check"
                      /\ result' = "none"
                      /\ UNCHANGED existsEnd
                 ELSE /\ to_complete' = {}
                      /\ EndCall(o.err, exists)
       ELSE /\ to_complete' = Registered(tasks)
            /\ pc' = "check"
            /\ result' = "none"
            /\ UNCHANGED <<existsEnd, already_found_upstream>>
    /\ UNCHANGED <<tasks, exists, already_found_downstream, declVars>>

\* Resource._check formats the location template with the context first;
\* Task.complete and Task.ready call it on every output (input) of the task,
\* and get_completed and get_ready call those on every registered task.  A
\* key the context lacks raises KeyError.
get_completed_raises(ts) ==
    \E i \in 1..Len(ts) : ts[i].output \cap unresolved # {}
get_ready_raises(ts) ==
    \E i \in 1..Len(ts) : ts[i].input \cap unresolved # {}

\* The top of the loop: completed, the test that ends the run, and ready.
Check ==
    /\ pc = "check"
    /\ IF get_completed_raises(tasks)
       THEN UNCHANGED completed /\ EndCall("KeyError", exists)
       ELSE /\ completed' = get_completed(tasks, exists)
            /\ IF completed' = to_complete
               THEN EndCall("ok", exists)
               ELSE IF get_ready_raises(tasks)
               THEN EndCall("KeyError", exists)
               ELSE pc' = "dispatch" /\ UNCHANGED <<result, existsEnd>>
    /\ UNCHANGED <<pipelineVars, call, to_complete, submitted, futures, jobs,
                   ncalls, exists0, executed, misbehaved, deleted, prev, declVars>>

\* Pipeline.run: to_start, from ready as computed now.
\* (variant: completed tasks are not taken out)
to_start_with_completed == to_complete \cap get_ready(tasks, exists)
to_start == (to_complete \ completed) \cap get_ready(tasks, exists)

\* Sequential mode: to_run.run(context) is called with no handler around
\* it, so what Task.run raises leaves Pipeline.run.
\* (variant: the exception is dropped and the loop goes on)
propagates_never(o) == FALSE
propagates(o) == o.kind = "raise"

\* Sequential mode: one task of to_start is run to its end (Task.run).
RunOne ==
    /\ pc = "dispatch"
    /\ call.parallelism = "none"
    /\ to_start # {}
    /\ Len(executed) < MaxExec
    /\ \E name \in to_start : \E o \in Outcomes(TaskOf(tasks, name)) :
         /\ executed' = Append(executed, name)
         /\ misbehaved' = IF Misbehaves(o) THEN misbehaved \cup {<<name, o.kind>>}
                          ELSE misbehaved
         /\ exists' = exists \cup o.saved
         /\ IF propagates(o)
            THEN EndCall("TaskError", exists')
            ELSE pc' = "check" /\ UNCHANGED <<result, existsEnd>>
    /\ UNCHANGED <<tasks, already_found_upstream, already_found_downstream, call,
                   to_complete, completed, submitted, futures, jobs,
                   ncalls, exists0, deleted, prev, declVars>>

\* Sequential mode: tuple(to_start)[0] on an empty to_start.
RunNone ==
    /\ pc = "dispatch"
    /\ call.parallelism = "none"
    /\ to_start = {}
    /\ EndCall("IndexError", exists)
    /\ UNCHANGED <<pipelineVars, call, to_complete, completed, submitted, futures, jobs,
                   ncalls, exists0, executed, misbehaved, deleted, prev, declVars>>

\* Parallel mode: "to_start -= submitted".
\* (variant: only the tasks whose future is still held are taken out)
to_submit_unfinished == to_start \ futures
to_submit == to_start \ submitted

\* Parallel mode: every task of to_start not yet submitted is submitted.
Submit ==
    /\ pc = "dispatch"
    /\ call.parallelism # "none"
    /\ LET new == to_submit IN
         /\ Len(executed) + Cardinality(new) <= MaxExec
         /\ jobs' = jobs \cup {[call |-> ncalls, task |-> name, st |-> "queued",
                                pending |-> {}] : name \in new}
         /\ submitted' = submitted \cup new
         /\ futures' = futures \cup new
         /\ executed' = executed \o SeqOf(new)
    /\ pc' = "wait"
    /\ UNCHANGED <<pipelineVars, call, to_complete, completed,
                   ncalls, result, existsEnd, exists0, misbehaved, deleted, prev, declVars>>

\* Parallel mode: wait(..., FIRST_COMPLETED) returns a finished future, which
\* is removed from futures; its result or exception is not looked at.
Wait ==
    /\ pc = "wait"
    /\ futures # {}
    /\ \E j \in jobs :
         /\ j.call = ncalls /\ j.task \in futures /\ j.st = "done"
         /\ futures' = futures \ {j.task}
         /\ jobs' = jobs \ {j}
    /\ pc' = "check"
    /\ UNCHANGED <<pipelineVars, call, to_complete, completed, submitted,
                   historyVars, declVars>>

\* Parallel mode: wait on no futures returns at once with done empty, and
\* tuple(done)[0] raises.
WaitNone ==
    /\ pc = "wait"
    /\ futures = {}
    /\ EndCall("IndexError", exists)
    /\ UNCHANGED <<pipelineVars, call, to_complete, completed, submitted, futures, jobs,
                   ncalls, exists0, executed, misbehaved, deleted, prev, declVars>>

\* A pool worker takes a queued task and calls Task.run: the inputs are
\* loaded (which raises when one is gone), the function is invoked, and
\* what it returned is left to be saved.
WorkerStart ==
    \E j \in jobs :
      /\ j.st = "queued"
      /\ Cardinality({k \in jobs : k.call = j.call /\ k.st = "running"}) < MaxWorkers
      /\ LET task == TaskOf(tasks, j.task) IN
         IF ~ready(task, exists)
         THEN /\ jobs' = (jobs \ {j}) \cup {[j EXCEPT !.st = "done"]}
              /\ UNCHANGED misbehaved
         ELSE \E o \in Outcomes(task) :
                /\ jobs' = (jobs \ {j}) \cup
                      {[j EXCEPT !.st = IF o.saved = {} THEN "done" ELSE "running",
                                 !.pending = o.saved]}
                \* (a worker still busy for an earlier call is not this call's)
                /\ misbehaved' = IF Misbehaves(o) /\ j.call = ncalls
                                 THEN misbehaved \cup {<<j.task, o.kind>>}
                                 ELSE misbehaved
      /\ UNCHANGED <<pipelineVars, pc, call, to_complete, completed, submitted, futures,
                     ncalls, result, existsEnd, exists0, executed, deleted, prev, declVars>>

\* A pool worker saves one more of the values its task returned.
WorkerSave ==
    \E j \in jobs : \E resource \in j.pending :
      /\ j.st = "running"
      /\ exists' = exists \cup {resource}
      /\ jobs' = (jobs \ {j}) \cup
            {[j EXCEPT !.pending = j.pending \ {resource},
                       !.st = IF j.pending = {resource} THEN "done" ELSE "running"]}
      /\ UNCHANGED <<tasks, already_found_upstream, already_found_downstream,
                     pc, call, to_complete, completed, submitted, futures,
                     historyVars, declVars>>

\* ----------------------------------------------------------- Pipeline.undo
\* (variant: the inputs of the tasks are taken as well)
OutputsAndInputsOf(ts, names) ==
    UNION {TaskOf(ts, name).output \cup TaskOf(ts, name).input : name \in names}
OutputsOf(ts, names) == UNION {TaskOf(ts, name).output : name \in names}

\* Task.undo on every task of to_undo: each existing output is deleted (the
\* resources implement delete, as LocalFileMixin does).
\* (variant: the deletions are logged and not made)
UndoTasks_logged(to_undo) ==
    /\ deleted' = {}
    /\ exists' = exists
    /\ EndCall("ok", exists')
UndoTasks(to_undo) ==
    /\ deleted' = exists \cap OutputsOf(tasks, to_undo)
    /\ exists' = exists \ OutputsOf(tasks, to_undo)
    /\ EndCall("ok", exists')

UndoCall(task, downstream) ==
    /\ BeginCall([op |-> "undo", task |-> task, parallelism |-> "none",
                  downstream |-> downstream])
    /\ to_complete' = {}
    /\ IF task # None /\ downstream
       THEN \E o \in get_downstream(tasks, task, already_found_downstream, 1) :
              /\ already_found_downstream' = o.found
              /\ IF o.err = "none"
                 THEN UndoTasks({task} \cup o.found)
                 ELSE /\ EndCall(o.err, exists)
                      /\ deleted' = {}
                      /\ UNCHANGED exists
       ELSE /\ IF task # None
               THEN UndoTasks({task})
               ELSE UndoTasks(Registered(tasks))
            /\ UNCHANGED already_found_downstream
    /\ UNCHANGED <<tasks, already_found_upstream, declVars>>

Modes == {"none", "threads"}

Next ==
    \/ \E task \in Registered(tasks) \cup {None} : \E parallelism \in Modes :
         RunCall(task, parallelism)
    \/ Check
    \/ RunOne
    \/ RunNone
    \/ Submit
    \/ Wait
    \/ WaitNone
    \/ WorkerStart
    \/ WorkerSave
    \/ \E task \in Registered(tasks) \cup {None} : \E downstream \in BOOLEAN :
         UndoCall(task, downstream)

Spec == Init /\ [][Next]_vars


\* ------------------------------------------------ building the pipeline
\* The process while the module defining the pipeline is being imported:
\* the decorators are applied one by one (Pipeline() starts with no tasks).
InitDecl ==
    /\ tasks = <<>>
    /\ exists = {}
    /\ Fresh

Declared(kind, name, res, err, side) ==
    /\ ndecls < MaxDecls
    /\ ndecls' = ndecls + 1
    /\ decl' = [kind |-> kind, name |-> name, res |-> res, err |-> err,
                repeat |-> <<name, side>> \in called, before |-> tasks]
    /\ UNCHANGED <<exists, already_found_upstream, already_found_downstream,
                   runVars, historyVars, taskVars, runs, unresolved, dagVars>>

\* @pipeline.input(*input) applied to a function called name.
DeclareInput(name, input) ==
    LET r == PipelineInput(tasks, name, input, ndecls + 1) IN
    /\ Declared("input", name, input, r.err, "input")
    /\ tasks' = r.tasks
    \* add_input is reached only for a name not registered yet
    /\ called' = IF name \in Registered(tasks) THEN called
                 ELSE called \cup {<<name, "input">>}

\* @pipeline.output(*output) applied to a function called name.
DeclareOutput(name, output) ==
    LET r == PipelineOutput(tasks, name, output, ndecls + 1) IN
    /\ Declared("output", name, output, r.err, "output")
    /\ tasks' = r.tasks
    /\ called' = called \cup {<<name, "output">>}

\* pipeline.tasks[name].add_input(input), called directly.
TaskAddInput(name, input) ==
    /\ name \in Registered(tasks)
    /\ LET r == add_input(TaskOf(tasks, name), input) IN
         /\ Declared("add_input", name, input, r.err, "input")
         /\ tasks' = [tasks EXCEPT ![IndexOf(tasks, name)] = r.task]
    /\ called' = called \cup {<<name, "input">>}

\* pipeline.tasks[name].add_output(output), called directly.
TaskAddOutput(name, output) ==
    /\ name \in Registered(tasks)
    /\ LET r == add_output(TaskOf(tasks, name), output) IN
         /\ Declared("add_output", name, output, r.err, "output")
         /\ tasks' = [tasks EXCEPT ![IndexOf(tasks, name)] = r.task]
    /\ called' = called \cup {<<name, "output">>}

NextDecl ==
    \E name \in DeclNames : \E res \in DeclArgs :
      \/ DeclareInput(name, res)
      \/ DeclareOutput(name, res)
      \/ TaskAddInput(name, res)
      \/ TaskAddOutput(name, res)

SpecDecl == InitDecl /\ [][NextDecl]_vars


\* ------------------------------------------------ one execution of a task
\* Task.run on one task, followed through the wrappers of Pipeline.input and
\* Pipeline.output and through Resource._load / Resource._save, one load,
\* call or save at a time.

\* Number of values the task's function returns at most.
MaxValues == 3

\* The content of an artifact: no file, a file that was opened for writing
\* and not written to its end, or data.  Data is the v-th value the function
\* returned (0: it was there before) and passes the resource's assertions or
\* does not.
Absent == [kind |-> "none", v |-> 0, valid |-> FALSE]
Partial == [kind |-> "partial", v |-> 0, valid |-> FALSE]
Data(v, valid) == [kind |-> "data", v |-> v, valid |-> valid]

\* LocalFileMixin.check: os.path.isfile.
check(content) == content.kind # "none"

\* Resource.assert_integrity: every assertion is called on the data, and a
\* failing one raises.
\* (variant: no assertion is called)
assert_nothing(data) == TRUE
assert_integrity(data) == data.valid

\* The declarations of the task that is executed.
TaskInputs == {<<>>, <<"r1">>, <<"r1", "r2">>}
TaskOutputs == {<<"r3">>, <<"r3", "r4">>}

\* Task.output is a set: the orders in which iterating over it can yield the
\* declared resources.
Orders(output) ==
    {s \in [1..Len(output) -> Range(output)] : Range(s) = Range(output)}

\* What the function can return: a tuple of n values, or one value that is
\* not a tuple.
Values(n) == {[i \in 1..n |-> Data(i, valid[i])] : valid \in [1..n -> BOOLEAN]}
Returns ==
    {[tuple |-> TRUE, values |-> s] : s \in UNION {Values(n) : n \in 0..MaxValues}}
    \cup {[tuple |-> FALSE, values |-> s] : s \in Values(1)}

\* results, after "if not isinstance(results, tuple): results = (results,)".
results(returned) ==
    IF returned.tuple THEN returned.values ELSE <<returned.values[1]>>

\* The artifacts before the execution: any input may be missing or hold data
\* that passes or fails the assertions; any output may be there already.
Before(input, output) ==
    {f \in [Resources -> {Absent, Data(0, TRUE), Data(0, FALSE)}] :
        /\ \A r \in Resources \ (Range(input) \cup Range(output)) : f[r] = Absent
        /\ \A r \in Range(output) : f[r] # Data(0, FALSE)}

InitTask ==
    /\ tasks = <<>>
    /\ exists = {}
    /\ FreshCalls
    /\ NoRuns
    /\ Resolved
    /\ NoDag
    /\ \E input \in TaskInputs : \E output \in TaskOutputs :
         /\ \E order \in Orders(output) : \E returned \in Returns :
              wrapped = [input |-> input, output |-> output, order |-> order,
                         returned |-> returned]
         /\ files \in Before(input, output)
    /\ at = [pc |-> "load", i |-> 1]
    /\ events = [invoked |-> FALSE, err |-> "none", before |-> files]

callVars == <<pipelineVars, runVars, historyVars, decl, called, ndecls, runs, unresolved,
              dagVars>>

\* An exception leaves Task.run.
Raise(err) ==
    /\ at' = [at EXCEPT !.pc = "raised"]
    /\ events' = [events EXCEPT !.err = err]

\* Pipeline.input, func_wrapped: the next declared input is loaded with
\* Resource._load: load(path), then assert_integrity on what was loaded.
Load ==
    /\ at.pc = "load"
    /\ at.i <= Len(wrapped.input)
    /\ LET data == files[wrapped.input[at.i]] IN
         IF data.kind # "data" THEN Raise("LoadError")
         ELSE IF ~assert_integrity(data) THEN Raise("AssertionError")
         ELSE at' = [at EXCEPT !.i = @ + 1] /\ UNCHANGED events
    /\ UNCHANGED <<wrapped, files, callVars>>

\* Pipeline.input, func_wrapped: all inputs loaded, the function is called;
\* it raises or returns.
Invoke ==
    /\ at.pc = "load"
    /\ at.i > Len(wrapped.input)
    /\ \/ /\ at' = [pc |-> "raised", i |-> 1]
          /\ events' = [events EXCEPT !.invoked = TRUE, !.err = "TaskError"]
       \/ /\ at' = [pc |-> "save", i |-> 1]
          /\ events' = [events EXCEPT !.invoked = TRUE]
    /\ UNCHANGED <<wrapped, files, callVars>>

\* zip(task.output, results) yields as many pairs as the shorter of the two.
zip_length(output, rs) == IF Len(output) < Len(rs) THEN Len(output) ELSE Len(rs)

\* Pipeline.output, func_wrapped: the next pair (resource, result) of the zip
\* is saved with Resource._save: assert_integrity on the result, then
\* save(path, data), which creates the directories, opens the file for
\* writing and writes; it can fail before the file is opened or after.
Save ==
    /\ at.pc = "save"
    /\ at.i <= zip_length(wrapped.order, results(wrapped.returned))
    /\ LET resource == wrapped.order[at.i]
           data == results(wrapped.returned)[at.i]
       IN  IF ~assert_integrity(data)
           THEN Raise("AssertionError") /\ UNCHANGED files
           ELSE \/ /\ files' = [files EXCEPT ![resource] = data]
                   /\ at' = [at EXCEPT !.i = @ + 1]
                   /\ UNCHANGED events
                \/ /\ files' = [files EXCEPT ![resource] = Partial]
                   /\ Raise("SaveError")
                \/ /\ UNCHANGED files
                   /\ Raise("SaveError")
    /\ UNCHANGED <<wrapped, callVars>>

\* Pipeline.output, func_wrapped: the zip is exhausted, results is returned.
Return ==
    /\ at.pc = "save"
    /\ at.i > zip_length(wrapped.order, results(wrapped.returned))
    /\ at' = [at EXCEPT !.pc = "returned"]
    /\ UNCHANGED <<wrapped, files, events, callVars>>

NextTask ==
    \/ Load
    \/ Invoke
    \/ Save
    \/ Return

SpecTask == InitTask /\ [][NextTask]_vars


\* ------------------------------------------- two run calls at the same time
\* Two threads of one process call Pipeline.run on the same pipeline, each
\* with a target and in sequential mode; the tasks' functions return one
\* value per declared output.  Each call has its own locals (to_complete,
\* completed); the pipeline, the artifacts and the default already_found set
\* of get_upstream are shared.
Callers == {1, 2}

InitTwo ==
    /\ \E script \in Scripts : tasks = Build(script)
    /\ exists \in SUBSET ResourcesOf(tasks)
    /\ FreshCalls
    /\ NoTaskRun
    /\ Resolved
    /\ NoDag
    /\ \E t1, t2 \in Registered(tasks) :
         /\ t1 # t2
         /\ runs = [id \in Callers |->
                      [pc |-> "new", task |-> IF id = 1 THEN t1 ELSE t2,
                       to_complete |-> {}, completed |-> {}, to_run |-> None,
                       executed |-> <<>>, result |-> "none"]]

twoVars == <<tasks, already_found_downstream, runVars, historyVars,
             decl, called, ndecls, taskVars, unresolved, dagVars>>

\* Pipeline.run up to the loop, in one caller.
TwoRunCall(id) ==
    /\ runs[id].pc = "new"
    /\ \E o \in get_upstream(tasks, runs[id].task, already_found_upstream, 1) :
         /\ already_found_upstream' = o.found
         /\ runs' = [runs EXCEPT ![id] =
                IF o.err = "none"
                THEN [@ EXCEPT !.pc = "check", !.to_complete = {runs[id].task} \cup o.found]
                ELSE [@ EXCEPT !.pc = "ended", !.result = o.err]]
    /\ UNCHANGED <<exists, twoVars>>

\* The top of the loop in one caller.
TwoCheck(id) ==
    /\ runs[id].pc = "check"
    /\ LET now == get_completed(tasks, exists) IN
         runs' = [runs EXCEPT ![id] =
                IF now = runs[id].to_complete
                THEN [@ EXCEPT !.pc = "ended", !.result = "ok", !.completed = now]
                ELSE [@ EXCEPT !.pc = "dispatch", !.completed = now]]
    /\ UNCHANGED <<exists, already_found_upstream, twoVars>>

\* to_start in one caller, from ready as computed now.
two_to_start(id) ==
    (runs[id].to_complete \ runs[id].completed) \cap get_ready(tasks, exists)

\* One caller picks a task of to_start and calls Task.run on it, or raises
\* IndexError on an empty to_start.
TwoStart(id) ==
    /\ runs[id].pc = "dispatch"
    /\ IF two_to_start(id) = {}
       THEN runs' = [runs EXCEPT ![id] = [@ EXCEPT !.pc = "ended", !.result = "IndexError"]]
       ELSE \E name \in two_to_start(id) :
              runs' = [runs EXCEPT ![id] =
                         [@ EXCEPT !.pc = "running", !.to_run = name,
                                   !.executed = Append(@, name)]]
    /\ UNCHANGED <<exists, already_found_upstream, twoVars>>

\* The task a caller runs saves its outputs and returns.
TwoFinish(id) ==
    /\ runs[id].pc = "running"
    /\ exists' = exists \cup TaskOf(tasks, runs[id].to_run).output
    /\ runs' = [runs EXCEPT ![id] = [@ EXCEPT !.pc = "check", !.to_run = None]]
    /\ UNCHANGED <<already_found_upstream, twoVars>>

NextTwo ==
    \E id \in Callers :
      \/ TwoRunCall(id)
      \/ TwoCheck(id)
      \/ TwoStart(id)
      \/ TwoFinish(id)

SpecTwo == InitTwo /\ [][NextTwo]_vars


\* ---------------------------------------------- a context that lacks a key
\* Run calls made with a context that lacks a key which the location template
\* of one resource needs.  Every resource of the pipeline is an input or an
\* output of a registered task, so a loop that gets past its first test
\* raises in get_ready: no call gets as far as picking a task.
InitKeys ==
    /\ \E script \in Scripts : tasks = Build(script)
    /\ exists \in SUBSET ResourcesOf(tasks)
    /\ FreshCalls
    /\ NoTaskRun
    /\ NoRuns
    /\ NoDag
    /\ \E resource \in ResourcesOf(tasks) : unresolved = {resource}

NextKeys ==
    \/ \E task \in Registered(tasks) \cup {None} : \E parallelism \in Modes :
         RunCall(task, parallelism)
    \/ Check

SpecKeys == InitKeys /\ [][NextKeys]_vars


\* ------------------------------------------ artifacts made by other means
\* While the first run call of the process is in progress something other
\* than the run (another process, a user) puts an artifact in place.
OutOfBand ==
    /\ pc # "idle"
    /\ call.op = "run"
    /\ \E resource \in ResourcesOf(tasks) \ exists : exists' = exists \cup {resource}
    /\ UNCHANGED <<tasks, already_found_upstream, already_found_downstream,
                   runVars, historyVars, declVars>>

NextOutOfBand ==
    \/ \E task \in Registered(tasks) \cup {None} : \E parallelism \in Modes :
         ncalls = 0 /\ RunCall(task, parallelism)
    \/ Check
    \/ RunOne
    \/ RunNone
    \/ Submit
    \/ Wait
    \/ WaitNone
    \/ WorkerStart
    \/ WorkerSave
    \/ OutOfBand

SpecOutOfBand == Init /\ [][NextOutOfBand]_vars


\* ------------------------------------------- the sequential loop, unbounded
\* The sequential loop followed for as long as it goes on: the first call of
\* the process, with no bound on the number of task executions.  The tasks
\* started are recorded once each, so that an execution that changes
\* nothing brings the call back to the state it was in.

\* The task picked has not been run by this call before.
RunFirst ==
    /\ RunOne
    /\ executed'[Len(executed')] \notin Range(executed)

\* The task picked has been run by this call before and is, once more, in
\* to_start: to_run.run(context) is called again.
RunAgain ==
    /\ pc = "dispatch"
    /\ call.parallelism = "none"
    /\ \E name \in to_start \cap Range(executed) :
       \E o \in Outcomes(TaskOf(tasks, name)) :
         /\ misbehaved' = IF Misbehaves(o) THEN misbehaved \cup {<<name, o.kind>>}
                          ELSE misbehaved
         /\ exists' = exists \cup o.saved
         /\ IF propagates(o)
            THEN EndCall("TaskError", exists')
            ELSE pc' = "check" /\ UNCHANGED <<result, existsEnd>>
    /\ UNCHANGED <<tasks, already_found_upstream, already_found_downstream, call,
                   to_complete, completed, submitted, futures, jobs,
                   ncalls, exists0, executed, deleted, prev, declVars>>

LoopStep == Check \/ RunFirst \/ RunAgain \/ RunNone

NextSequential ==
    \/ \E task \in Registered(tasks) \cup {None} : ncalls = 0 /\ RunCall(task, "none")
    \/ Check
    \/ RunFirst
    \/ RunAgain
    \/ RunNone

\* The interpreter goes on executing a call it has begun: the loop takes
\* its next step whenever it has one.
SpecSequential == Init /\ [][NextSequential]_vars /\ WF_vars(LoopStep)


\* ------------------------------------------------ the worker pool, closely
\* A parallel run followed with the writing of an output in two steps, as
\* Pickle.save makes it: open(path, 'wb') creates the file, and the dump and
\* the close that follow complete it.

\* A pool worker opens the file of a value it has yet to save: from now on
\* check (os.path.isfile) finds the artifact.
WorkerOpen ==
    \E j \in jobs : \E resource \in j.pending \ exists :
      /\ j.st = "running"
      /\ exists' = exists \cup {resource}
      /\ UNCHANGED <<tasks, already_found_upstream, already_found_downstream,
                     runVars, historyVars, declVars>>

NextPool ==
    \/ \E task \in Registered(tasks) \cup {None} : ncalls = 0 /\ RunCall(task, "threads")
    \/ Check
    \/ Submit
    \/ Wait
    \/ WaitNone
    \/ WorkerStart
    \/ WorkerOpen
    \/ WorkerSave

SpecPool == Init /\ [][NextPool]_vars


\* --------------------------------------------- undo one task, then run all
\* Every task of the pipeline is complete (as after a run of everything);
\* one task is undone without its downstream tasks, and run() is called
\* with no target.
InitComplete ==
    /\ Init
    /\ get_completed(tasks, exists) = Registered(tasks)

NextRedo ==
    \/ \E task \in Registered(tasks) : ncalls = 0 /\ UndoCall(task, FALSE)
    \/ \E parallelism \in Modes : ncalls = 1 /\ RunCall(None, parallelism)
    \/ Check
    \/ RunOne
    \/ RunNone
    \/ Submit
    \/ Wait
    \/ WaitNone
    \/ WorkerStart
    \/ WorkerSave

SpecRedo == InitComplete /\ [][NextRedo]_vars


\* ------------------------------------------------------- dalymi.dag: DAG
\* Number of DAG.run calls followed.
MaxDagRuns == 2

\* A task function decorated with @dag.ensure_dependencies(*dependencies):
\* its name and the functions it names, which were defined before it.  A
\* dependency that is not itself decorated is a plain function.
\* Diamond:  t1 plain; t2 and t3 depend on t1; t4 depends on t2 and t3.
\* Line:     t1 decorated with no dependency; t2 on t1; t3 on t2.
\* Repeated: t2 names the plain t1 twice; t4 depends on t2 and the plain t3.
Dep(name, dependencies) == [name |-> name, dependencies |-> dependencies]
Diamond == <<Dep("t2", <<"t1">>), Dep("t3", <<"t1">>), Dep("t4", <<"t2", "t3">>)>>
Line == <<Dep("t1", <<>>), Dep("t2", <<"t1">>), Dep("t3", <<"t2">>)>>
Repeated == <<Dep("t2", <<"t1", "t1">>), Dep("t4", <<"t2", "t3">>)>>
Dags == {Diamond, Line, Repeated}

\* DAG.__init__ sets force_run to False, and nothing assigns it afterwards
\* (DAG.run takes a force_run argument and does not store it).
\* (variant: force_run is set)
force_run_set == TRUE
force_run == FALSE

Decorated == {tasks_with_dependencies[i].name : i \in 1..Len(tasks_with_dependencies)}
\* The dependencies func_wrapped holds (none for a plain function).
Dependencies(name) ==
    IF name \in Decorated
    THEN LET i == CHOOSE i \in 1..Len(tasks_with_dependencies) :
                      tasks_with_dependencies[i].name = name
         IN  tasks_with_dependencies[i].dependencies
    ELSE <<>>

\* The frames of the call stack: ensure_tasks(tasks) at its i-th task, and
\* run_task(task) at "call" (about to call task()), "body" (dependencies
\* ensured, about to call the function) or "running" (in the function).
EnsureFrame(ts) == [kind |-> "ensure_tasks", tasks |-> ts, i |-> 1, task |-> None,
                    pc |-> "loop"]
RunFrame(task) == [kind |-> "run_task", tasks |-> <<>>, i |-> 0, task |-> task,
                   pc |-> "call"]
Top == frames[Len(frames)]
Pop == SubSeq(frames, 1, Len(frames) - 1)
SetTop(frame) == [frames EXCEPT ![Len(frames)] = frame]

\* After the module defining the DAG has been imported.
InitDag ==
    /\ tasks = <<>>
    /\ exists = {}
    /\ FreshCalls
    /\ NoTaskRun
    /\ NoRuns
    /\ Resolved
    /\ \E decorations \in Dags : dag = NewDag(decorations)

notDagVars == <<pipelineVars, runVars, historyVars, decl, called, ndecls, taskVars,
                runs, unresolved>>

\* DAG.run(task): ensure_task on the named task, or ensure_tasks on every
\* registered task in the order of tasks_with_dependencies.
DagRun(task) ==
    /\ frames = <<>>
    /\ ndagruns < MaxDagRuns
    /\ dag' = [dag EXCEPT
                 !.ndagruns = ndagruns + 1,
                 !.frames = <<EnsureFrame(IF task # None THEN <<task>>
                                          ELSE [i \in 1..Len(tasks_with_dependencies) |->
                                                   tasks_with_dependencies[i].name])>>]
    /\ UNCHANGED notDagVars

\* DAG.ensure_task on the next task of ensure_tasks: a finished task is
\* skipped unless force_run, any other is handed to run_task.
ensure_task ==
    /\ frames # <<>>
    /\ Top.kind = "ensure_tasks" /\ Top.i <= Len(Top.tasks)
    /\ LET task == Top.tasks[Top.i] IN
         IF task \in Range(finished_tasks) /\ ~force_run
         THEN dag' = [dag EXCEPT !.frames = SetTop([Top EXCEPT !.i = Top.i + 1])]
         ELSE dag' = [dag EXCEPT !.frames = Append(frames, RunFrame(task))]
    /\ UNCHANGED notDagVars

\* DAG.ensure_tasks has gone through its tasks and returns.
ensure_tasks_returns ==
    /\ frames # <<>>
    /\ Top.kind = "ensure_tasks" /\ Top.i > Len(Top.tasks)
    /\ dag' = [dag EXCEPT !.frames = Pop]
    /\ UNCHANGED notDagVars

\* DAG.run_task calls task(): func_wrapped of a decorated function first
\* calls ensure_tasks(dependencies); a plain function is the body itself.
run_task ==
    /\ frames # <<>>
    /\ Top.kind = "run_task" /\ Top.pc = "call"
    /\ dag' = [dag EXCEPT !.frames =
                 IF Top.task \in Decorated
                 THEN Append(SetTop([Top EXCEPT !.pc = "body"]),
                             EnsureFrame(Dependencies(Top.task)))
                 ELSE SetTop([Top EXCEPT !.pc = "body"])]
    /\ UNCHANGED notDagVars

\* The function of the task is called.
BodyStarts ==
    /\ frames # <<>>
    /\ Top.kind = "run_task" /\ Top.pc = "body"
    /\ dag' = [dag EXCEPT !.frames = SetTop([Top EXCEPT !.pc = "running"]),
                          !.trace = Append(trace, <<Top.task, "starts">>)]
    /\ UNCHANGED notDagVars

\* The function returns: run_task appends the task to finished_tasks and
\* returns to the ensure_tasks that called it, which goes to its next task.
BodyReturns ==
    /\ frames # <<>>
    /\ Top.kind = "run_task" /\ Top.pc = "running"
    /\ LET below == frames[Len(frames) - 1] IN
         dag' = [dag EXCEPT
                   !.finished_tasks = Append(finished_tasks, Top.task),
                   !.trace = Append(trace, <<Top.task, "returns">>),
                   !.frames = [Pop EXCEPT ![Len(frames) - 1] =
                                              [below EXCEPT !.i = below.i + 1]]]
    /\ UNCHANGED notDagVars

\* The function raises: nothing on the stack handles it, DAG.run raises,
\* and the task is not recorded as finished.
BodyRaises ==
    /\ frames # <<>>
    /\ Top.kind = "run_task" /\ Top.pc = "running"
    /\ dag' = [dag EXCEPT !.frames = <<>>,
                          !.trace = Append(trace, <<Top.task, "raises">>)]
    /\ UNCHANGED notDagVars

NextDag ==
    \/ \E task \in Decorated \cup {None} : DagRun(task)
    \/ ensure_task
    \/ ensure_tasks_returns
    \/ run_task
    \/ BodyStarts
    \/ BodyReturns
    \/ BodyRaises

SpecDag == InitDag /\ [][NextDag]_vars


\* ======================================================================
\* Properties
\* ======================================================================

\* The tasks that transitively produce the inputs of a task (upstream), and
\* the tasks reachable from it over consumer edges (downstream): the least
\* sets closed under "producer of an input of" / "consumer of an output of".
DirectUp(ts, names) ==
    {get_producer(ts, resource) :
        resource \in {r \in UNION {TaskOf(ts, n).input : n \in names} : HasProducer(ts, r)}}
DirectDown(ts, names) ==
    UNION {get_consumers(ts, resource) : resource \in OutputsOf(ts, names)}

RECURSIVE ReachUp(_, _)
ReachUp(ts, seen) ==
    IF DirectUp(ts, seen) \subseteq seen THEN seen
    ELSE ReachUp(ts, seen \cup DirectUp(ts, seen))
RECURSIVE ReachDown(_, _)
ReachDown(ts, seen) ==
    IF DirectDown(ts, seen) \subseteq seen THEN seen
    ELSE ReachDown(ts, seen \cup DirectDown(ts, seen))

Upstream(ts, name) == ReachUp(ts, DirectUp(ts, {name}))
Downstream(ts, name) == ReachDown(ts, DirectDown(ts, {name}))
Closure(ts, name) == {name} \cup Upstream(ts, name)

Started == Range(executed)
IsRun == call.op = "run"
IsUndo == call.op = "undo"
Ended == pc = "idle" /\ ncalls > 0


\* ----------------------------------------------------------------------
\* C1  Topological safety: in every run, sequential or parallel, whenever a
\* task is started (called synchronously, or submitted to the pool), every
\* input resource of that task exists at that moment.
C1_TopologicalSafety ==
    [][\A i \in (Len(executed) + 1)..Len(executed') :
          Len(executed') > Len(executed) =>
              ready(TaskOf(tasks, executed'[i]), exists)]_vars

\* A parallel run has submitted a task with inputs after having submitted
\* the producer of one of them, whose output was missing when the run began.
C1_Witness ==
    /\ IsRun /\ call.parallelism = "threads"
    /\ \E i, k \in 1..Len(executed) :
         /\ i < k
         /\ \E resource \in TaskOf(tasks, executed[k]).input :
              /\ resource \notin exists0
              /\ resource \in TaskOf(tasks, executed[i]).output

\* ----------------------------------------------------------------------
\* C2  Resumability: a task all of whose outputs exist when run is called
\* is never started by that run, in either mode, whether or not its
\* inputs exist (nothing deletes artifacts while a run is in progress).
C2_Resumability ==
    IsRun => \A name \in Started : ~complete(TaskOf(tasks, name), exists0)

\* A run that started some task has ended with success although a task of
\* its closure with outputs had all outputs present and an input missing
\* when the run began.
C2_Witness ==
    /\ IsRun /\ Ended /\ result = "ok" /\ executed # <<>>
    /\ \E name \in to_complete \ Started :
         LET task == TaskOf(tasks, name) IN
         /\ task.output # {}
         /\ complete(task, exists0)
         /\ ~ready(task, exists0)


\* ----------------------------------------------------------------------
\* C3  Closure correctness: for every call run(task=X), whatever calls were
\* made on the pipeline before, the tasks the call starts are among X and
\* the transitive producers of X's inputs.
C3_ClosureCorrectness ==
    (IsRun /\ call.task # None) => Started \subseteq Closure(tasks, call.task)

\* ----------------------------------------------------------------------
\* C4  Idempotence: when a run call has returned successfully and the next
\* call is a run with the same arguments, made on the artifact store as
\* that call left it, the second call starts no task.
C4_Idempotence ==
    (IsRun /\ prev.call = call /\ prev.result = "ok" /\ exists0 = prev.existsEnd)
        => executed = <<>>

\* A run that started tasks returned successfully, and the same run call,
\* made again on the store it left, has returned successfully too.
C4_Witness ==
    /\ IsRun /\ prev.call = call /\ prev.result = "ok" /\ exists0 = prev.existsEnd
    /\ prev.started # {}
    /\ Ended /\ result = "ok"


\* ----------------------------------------------------------------------
\* C5  Exact incremental execution.  The case: a sequential run with a
\* target X, the first call of the process, whose closure could be computed
\* (no cycle, no consumed resource without producer) and in which every
\* invoked function returned one value per declared output; the run has
\* ended.
C5_Case ==
    /\ IsRun /\ Ended /\ ncalls = 1
    /\ call.parallelism = "none" /\ call.task # None
    /\ misbehaved = {}
    /\ result \in {"ok", "IndexError"}

C5_Incomplete0 ==
    {name \in Closure(tasks, call.task) : ~complete(TaskOf(tasks, name), exists0)}

C5_OnceEach ==
    \A i, k \in 1..Len(executed) : i # k => executed[i] # executed[k]

C5_AllPresent ==
    OutputsOf(tasks, Closure(tasks, call.task)) \subseteq exists

\* No two tasks of the closure declare the same resource as output.
C5_SingleProducers ==
    \A n, m \in Closure(tasks, call.task) :
        n # m => TaskOf(tasks, n).output \cap TaskOf(tasks, m).output = {}

\* executed[i] produces the resource and executed[k] consumes it.
Feeds(i, k, resource) ==
    /\ resource \in TaskOf(tasks, executed[i]).output
    /\ resource \in TaskOf(tasks, executed[k]).input

C6_EndsWhenClosureComplete ==
    (IsRun /\ pc = "dispatch") => ~(to_complete \subseteq completed)

\* ----------------------------------------------------------------------
\* C7  Undo scope, single task: undo(task=X, downstream=False) deletes
\* exactly the outputs of X that exist; every other artifact exists after
\* the call iff it existed before; the call starts no task.
C7_Case ==
    IsUndo /\ Ended /\ call.task # None /\ ~call.downstream

C7_UndoSingle ==
    C7_Case =>
        /\ deleted = exists0 \cap TaskOf(tasks, call.task).output
        /\ existsEnd = exists0 \ TaskOf(tasks, call.task).output
        /\ executed = <<>>
        /\ result = "ok"

\* Such an undo, of a task with consumers, one of whose outputs existed and
\* another did not, made while an output of one of its consumers existed.
C7_Witness ==
    /\ C7_Case
    /\ deleted # {}
    /\ TaskOf(tasks, call.task).output \ exists0 # {}
    /\ OutputsOf(tasks, Downstream(tasks, call.task)) \cap exists0 # {}

\* ----------------------------------------------------------------------
\* C8  Undo scope, downstream: for every call undo(task=X, downstream=True),
\* whatever calls were made before, the artifacts deleted are exactly the
\* existing outputs of X and of the tasks reachable from X over consumer
\* edges.
C8_UndoDownstream ==
    (IsUndo /\ Ended /\ call.task # None /\ call.downstream /\ result = "ok") =>
        deleted = exists0 \cap
                  OutputsOf(tasks, {call.task} \cup Downstream(tasks, call.task))


\* ----------------------------------------------------------------------
\* C9  Unique producer: after any sequence of declarations every resource
\* is an output of at most one registered task (a declaration that would
\* register a second producer is rejected).
C9_UniqueProducer ==
    \A resource \in Resources : Cardinality(Producers(tasks, resource)) <= 1

\* ----------------------------------------------------------------------
\* C10  Declare-once: on every task, a second call of add_input raises and
\* a second call of add_output raises, whatever the first call was given
\* (an empty collection included).
C10_DeclareOnce ==
    (decl.kind \in {"output", "add_output", "add_input"} /\ decl.repeat)
        => decl.err = "ValueError"


\* ----------------------------------------------------------------------
\* The tasks a run call has to complete, as the call's arguments define
\* them: the target and its transitive producers, or every task.
RunClosure ==
    IF call.task = None THEN Registered(tasks) ELSE Closure(tasks, call.task)

\* C11  Unresolved producer: a run call, with a target or with none, whose
\* closure holds a task consuming a resource that no registered task
\* produces starts no task and ends with the unresolved-producer error
\* (ValueError).
C11_UnresolvedProducer ==
    (IsRun /\ \E name \in RunClosure :
                 \E resource \in TaskOf(tasks, name).input : ~HasProducer(tasks, resource))
        => /\ executed = <<>>
           /\ Ended => result = "ValueError"


\* ----------------------------------------------------------------------
\* One execution of a task has ended, and its function had returned.
TaskEnded == at.pc \in {"returned", "raised"}
FunctionReturned == events.invoked /\ events.err # "TaskError"

\* C12  Arity check: when the function has returned a number of values
\* other than the number of declared outputs, the execution of the task
\* ends with an output-arity error.
C12_ArityCheck ==
    (TaskEnded /\ FunctionReturned
       /\ Len(results(wrapped.returned)) # Len(wrapped.output))
        => events.err = "ArityError"


\* ----------------------------------------------------------------------
\* C13  Declared output order: when a function with declared outputs
\* (r1, ..., rn) has returned (v1, ..., vn) and all of them have been
\* saved, resource ri holds value vi for every i, whatever the iteration
\* order of the task's output set.
C13_DeclaredOrder ==
    (at.pc = "returned"
       /\ Len(results(wrapped.returned)) = Len(wrapped.output))
        => \A i \in 1..Len(wrapped.output) :
              files[wrapped.output[i]] = results(wrapped.returned)[i]


\* ----------------------------------------------------------------------
\* A task started by this run call raised in its function.
Raised == {name \in Started : <<name, "raise">> \in misbehaved}

\* C14  Parallel failure terminates the run: a parallel run in which a
\* submitted task raised in its worker does not return successfully.  (The
\* part of the claim that a finite run can refute; the first call of the
\* process, so that every worker works for this call.)
C14_ParallelFailureFails ==
    (IsRun /\ call.parallelism = "threads" /\ ncalls = 1 /\ Ended /\ Raised # {})
        => result # "ok"


\* ----------------------------------------------------------------------
\* C15  Worker outcome surfaced: a parallel run in which a submitted task
\* raised in its worker ends with that task's error.  (The first call of the
\* process, so that every worker works for this call.)
C15_WorkerOutcomeSurfaced ==
    (IsRun /\ call.parallelism = "threads" /\ ncalls = 1 /\ Ended /\ Raised # {})
        => result = "TaskError"

\* ----------------------------------------------------------------------
\* C16  Sequential failure propagation: in a sequential run, once a task has
\* raised (in loading its inputs, in its function or in saving its outputs)
\* the run has ended with that error, and the task that raised is the last
\* one the run started.
C16_SequentialFailure ==
    (IsRun /\ call.parallelism = "none" /\ Raised # {})
        => /\ Ended
           /\ result = "TaskError"
           /\ Raised = {executed[Len(executed)]}

\* A sequential run has ended with a task's error after another task had
\* run, the task that raised had saved one of its outputs and not another,
\* and a task of the closure that the run never started is ready and not
\* complete.
C16_Witness ==
    /\ IsRun /\ call.parallelism = "none" /\ Ended /\ result = "TaskError"
    /\ Len(executed) >= 2
    /\ LET task == TaskOf(tasks, executed[Len(executed)]) IN
         /\ (task.output \cap exists) \ exists0 # {}
         /\ task.output \ exists # {}
    /\ \E name \in to_complete \ Started :
         ready(TaskOf(tasks, name), exists) /\ ~complete(TaskOf(tasks, name), exists)


\* ----------------------------------------------------------------------
\* C17  Validation around I/O: a file that the execution has written holds
\* data that passed the assertions (or was not written to its end); when a
\* save has raised on a failing assertion, the file of that resource is as
\* it was before; and the function has been invoked only if every input,
\* as loaded, passed the assertions.
C17_ValidationAroundIO ==
    /\ \A r \in Resources :
         files[r] # events.before[r] => (files[r] = Partial \/ files[r].valid)
    /\ (at.pc = "raised" /\ events.invoked /\ events.err = "AssertionError")
          => files[wrapped.order[at.i]] = events.before[wrapped.order[at.i]]
    /\ events.invoked =>
          \A r \in Range(wrapped.input) : files[r].kind = "data" /\ files[r].valid

\* The function was invoked on two loaded inputs and returned two values;
\* the first was saved, the second failed an assertion, and the save
\* raised, with a file of that resource there from before.
C17_Witness ==
    /\ at.pc = "raised" /\ events.invoked /\ events.err = "AssertionError"
    /\ Len(wrapped.input) = 2
    /\ at.i = 2
    /\ files[wrapped.order[1]] = Data(1, TRUE)
    /\ check(events.before[wrapped.order[2]])


\* ----------------------------------------------------------------------
\* Task.complete on the executed task, over the files.
TaskComplete == \A r \in Range(wrapped.output) : check(files[r])

\* C18  No completion from partial output: after an execution that raised
\* while saving its outputs the task is not complete, and the resource whose
\* save was aborted has no file, or the file it had before.
C18_NoCompletionFromPartialOutput ==
    (at.pc = "raised" /\ events.invoked /\ events.err \in {"SaveError", "AssertionError"})
        => /\ ~TaskComplete
           /\ files[wrapped.order[at.i]] \in {Absent, events.before[wrapped.order[at.i]]}


\* ----------------------------------------------------------------------
\* The closure of a target can be computed: no cycle, and a producer for
\* every resource consumed in it.
Computable(name) ==
    \A o \in get_upstream(tasks, name, {}, 1) : o.err = "none"

TouchedBy(names) ==
    UNION {TaskOf(tasks, n).input \cup TaskOf(tasks, n).output : n \in names}

\* The closures of the two callers' targets share no task and no resource.
DisjointClosures ==
    /\ \A id \in Callers : Computable(runs[id].task)
    /\ Closure(tasks, runs[1].task) \cap Closure(tasks, runs[2].task) = {}
    /\ TouchedBy(Closure(tasks, runs[1].task))
         \cap TouchedBy(Closure(tasks, runs[2].task)) = {}

\* Every task is in the closure of one of the two targets, and every
\* artifact there is was saved by a task one of the callers started (the
\* callers began on an empty store).
OnlyTheTwoClosures ==
    /\ Registered(tasks) = Closure(tasks, runs[1].task) \cup Closure(tasks, runs[2].task)
    /\ exists \subseteq OutputsOf(tasks, Range(runs[1].executed) \cup Range(runs[2].executed))

\* C19  Concurrent runs on disjoint closures are safe: of two run calls in
\* progress at once whose targets' closures share no task and no resource,
\* a call that has ended has ended successfully, with every task of its
\* closure complete, and no call starts a task of its closure twice.
\* (Stated for pipelines that hold nothing but the two closures, where it is
\* violated already.)
C19_ConcurrentDisjointRuns ==
    (runs # <<>> /\ DisjointClosures /\ OnlyTheTwoClosures) =>
        \A id \in Callers :
            /\ runs[id].pc = "ended" =>
                 /\ runs[id].result = "ok"
                 /\ Closure(tasks, runs[id].task) \subseteq get_completed(tasks, exists)
            /\ \A i, k \in 1..Len(runs[id].executed) :
                 i # k => runs[id].executed[i] # runs[id].executed[k]


\* ----------------------------------------------------------------------
\* C20  Producer-before-dependent ordering: in every run, sequential or
\* parallel, in which the functions return one value per declared output:
\* when a task T and a task P that declares an input of T as output are both
\* started by the run, P is started before T, and at the step that starts T
\* the worker running P, if any, has saved all of P's outputs.
C20_ProducerBeforeDependent ==
    [][(IsRun' /\ misbehaved' = {}) =>
         \A i, k \in 1..Len(executed') :
            (TaskOf(tasks, executed'[i]).output
                \cap TaskOf(tasks, executed'[k]).input # {}) =>
               /\ i < k
               /\ k > Len(executed) =>
                    /\ i <= Len(executed)
                    /\ \A j \in jobs : (j.call = ncalls /\ j.task = executed'[i])
                                          => j.st = "done"]_vars


\* ----------------------------------------------------------------------
\* C21  Cycle-safe traversal: get_upstream and get_downstream end on every
\* registered graph, one with a dependency cycle included: no call that
\* makes one of the two traversals ends on the recursion limit.
C21_CycleSafeTraversal ==
    (Ended /\ call.task # None /\ (IsRun \/ (IsUndo /\ call.downstream)))
        => result # "RecursionError"


\* ----------------------------------------------------------------------
\* C22  Undo all: undo called with no task name ends without error, has
\* deleted exactly the declared outputs that existed, so that no declared
\* output of any task exists when it returns, and has left every artifact
\* that is no task's declared output as it was.
C22_UndoAll ==
    (IsUndo /\ Ended /\ call.task = None) =>
        LET outputs == OutputsOf(tasks, Registered(tasks)) IN
        /\ result = "ok"
        /\ deleted = exists0 \cap outputs
        /\ existsEnd \cap outputs = {}
        /\ existsEnd \ outputs = exists0 \ outputs
        /\ executed = <<>>

\* An undo with no task name has deleted an output while another declared
\* output was missing and an artifact that no task declares as output
\* existed.
C22_Witness ==
    /\ IsUndo /\ Ended /\ call.task = None
    /\ deleted # {}
    /\ OutputsOf(tasks, Registered(tasks)) \ exists0 # {}
    /\ exists0 \ OutputsOf(tasks, Registered(tasks)) # {}


\* ----------------------------------------------------------------------
\* C23  Templating error is fatal: a run call whose context lacks a key
\* that the location template of a resource of some task of its closure
\* needs starts no task and does not end successfully.
C23_TemplatingErrorFatal ==
    (IsRun /\ TouchedBy(RunClosure) \cap unresolved # {})
        => /\ executed = <<>>
           /\ Ended => result # "ok"


\* ----------------------------------------------------------------------
\* The tasks a step starts (calls, or submits to the pool).
NewlyStarted ==
    {executed'[k] : k \in (Len(executed) + 1)..Len(executed')}

\* C24, as claimed: a task of the closure that the run has not started yet
\* and whose outputs all exist, by whatever means, is not started by the run.
C24_AsClaimed ==
    [][(IsRun' /\ Len(executed') > Len(executed)) =>
          \A name \in NewlyStarted \ Started :
              ~complete(TaskOf(tasks, name), exists)]_vars

\* C24, as amended: a task whose outputs all exist when an iteration of the
\* loop computes completed is not started in that iteration (nor in a later
\* one: nothing deletes artifacts during a run, so the task is in every
\* later completed as well).  Outputs that appear between the computation of
\* completed and the dispatch of the same iteration go unnoticed.
C24_OutOfBandHonoured ==
    [][(IsRun' /\ Len(executed') > Len(executed)) =>
          NewlyStarted \cap completed = {}]_vars

\* A run has started a task and ended successfully without ever starting a
\* task of its closure that was incomplete when the run began and whose
\* missing outputs none of the started tasks declares.
C24_Witness ==
    /\ IsRun /\ Ended /\ result = "ok" /\ executed # <<>>
    /\ \E name \in to_complete \ Started :
         /\ ~complete(TaskOf(tasks, name), exists0)
         /\ (TaskOf(tasks, name).output \ exists0) \cap OutputsOf(tasks, Started) = {}


\* ----------------------------------------------------------------------
\* C25  Upstream set correctness: on a pipeline without cycle in which every
\* consumed resource has a producer, in any sequence of calls, the set that
\* get_upstream(T) returns to a run call with target T (the shared set, as
\* the call leaves it) is exactly the set of the tasks that transitively
\* produce the inputs of T.
C25_UpstreamSetCorrect ==
    (IsRun /\ call.task # None /\ \A name \in Registered(tasks) : Computable(name))
        => already_found_upstream = Upstream(tasks, call.task)


\* ----------------------------------------------------------------------
\* C26  Predicates restricted to the closure: a run with target X whose
\* context has every key that the resources of the tasks of {X} and
\* upstream(X) need does not fail on a location template: resources declared
\* only by tasks outside the closure are not inspected.
C26_PredicatesInClosure ==
    (IsRun /\ Ended /\ call.task # None
       /\ TouchedBy(Closure(tasks, call.task)) \cap unresolved = {})
        => result # "KeyError"


\* ----------------------------------------------------------------------
\* C27  Task shape fixed once declared: a decorator applied to a name that
\* is registered already and rejected with an error (a second output
\* declaration, an input declaration for a registered name) leaves the
\* registered tasks as they were: function, input and output.
C27_RejectedLeavesTask ==
    (decl.kind \in {"input", "output"} /\ decl.err # "none"
       /\ decl.name \in Registered(decl.before))
        => tasks = decl.before


\* ----------------------------------------------------------------------
\* C28  At most one submission per task: in a parallel run no task is
\* submitted to the pool twice, and no two workers of the run hold the same
\* task, whether or not its outputs exist after its submission has finished.
C28_SubmittedOnce ==
    (IsRun /\ call.parallelism = "threads") =>
        /\ \A i, k \in 1..Len(executed) : i # k => executed[i] # executed[k]
        /\ \A j, k \in jobs : (j.call = ncalls /\ k.call = ncalls /\ j.task = k.task) => j = k
        /\ Started = submitted

\* A parallel run has ended after a submitted task finished without saving
\* all of its outputs: the task is still in the closure, incomplete and
\* ready, and its future has been taken out of futures.
C28_Witness ==
    /\ IsRun /\ call.parallelism = "threads" /\ Ended
    /\ Len(executed) >= 2
    /\ \E name \in Started \cap to_complete :
         /\ ~complete(TaskOf(tasks, name), exists)
         /\ ready(TaskOf(tasks, name), exists)
         /\ name \notin futures


\* ----------------------------------------------------------------------
\* C29  Undo is idempotent: an undo call made with the arguments of the
\* undo call before it, on the store as that call left it, deletes nothing,
\* raises no error and leaves the store as it found it.
C29_UndoIdempotent ==
    (IsUndo /\ Ended /\ prev.call = call /\ exists0 = prev.existsEnd) =>
        /\ deleted = {}
        /\ result = "ok"
        /\ existsEnd = exists0


\* ----------------------------------------------------------------------
\* The sequential run that always picks, among the tasks it may start, the
\* one registered first: the tasks it starts and the store it ends on.
RECURSIVE FirstPickRun(_, _, _, _)
FirstPickRun(ts, ex, closure, started) ==
    LET candidates == (closure \ get_completed(ts, ex)) \cap get_ready(ts, ex) IN
    IF get_completed(ts, ex) = closure \/ candidates = {}
    THEN [started |-> started, exists |-> ex]
    ELSE LET i == CHOOSE i \in 1..Len(ts) :
                     /\ ts[i].name \in candidates
                     /\ \A j \in 1..(i - 1) : ts[j].name \notin candidates
         IN  FirstPickRun(ts, ex \cup ts[i].output, closure, started \cup {ts[i].name})

\* C30  Order independence: on a pipeline without cycle whose functions
\* return one value per declared output, a sequential run (the first call of
\* the process) starts the same set of tasks and ends on the same set of
\* artifacts whichever task it picks at each iteration: the same as the run
\* that always picks the task registered first.
C30_OrderIndependence ==
    (IsRun /\ Ended /\ ncalls = 1 /\ call.parallelism = "none" /\ misbehaved = {}
       /\ result \in {"ok", "IndexError"})
        => LET first == FirstPickRun(tasks, exists0, to_complete, {}) IN
           /\ Started = first.started
           /\ existsEnd = first.exists

\* ----------------------------------------------------------------------
\* C31  Success implies completion: a run call, sequential or parallel,
\* returns successfully only from a final check at which every declared
\* output of every task of its closure exists.
C31_SuccessImpliesCompletion ==
    [][(pc # "idle" /\ IsRun /\ pc' = "idle" /\ result' = "ok")
          => \A name \in RunClosure : TaskOf(tasks, name).output \subseteq exists
      ]_vars

\* A parallel run with a target has returned successfully after it started
\* two tasks, one of which has two outputs, while a task outside the
\* closure is left incomplete.
C31_Witness ==
    /\ IsRun /\ Ended /\ result = "ok"
    /\ call.parallelism = "threads" /\ call.task # None
    /\ Len(executed) >= 2
    /\ \E name \in Started : Cardinality(TaskOf(tasks, name).output) = 2
    /\ \E name \in Registered(tasks) \ RunClosure :
         ~complete(TaskOf(tasks, name), existsEnd)

\* ----------------------------------------------------------------------
\* A task declared with inputs and no outputs.
TerminalConsumers ==
    {name \in Registered(tasks) :
        TaskOf(tasks, name).input # {} /\ TaskOf(tasks, name).output = {}}

\* C32  Terminal consumers: a task with inputs and no outputs is complete in
\* every state, and no run call, sequential or parallel, with a target or
\* without, starts it or hands it to a worker.
C32_TerminalConsumerNeverRuns ==
    \A i \in 1..Len(tasks) :
        (tasks[i].input # {} /\ tasks[i].output = {})
            => /\ complete(tasks[i], exists)
               /\ tasks[i].name \notin Started
               /\ tasks[i].name \notin submitted
               /\ \A j \in jobs : j.task # tasks[i].name

\* A run whose target is a terminal consumer has returned successfully
\* after it started the two tasks upstream of the target; the target's
\* inputs exist, and it was not started.
C32_Witness ==
    /\ IsRun /\ Ended /\ result = "ok"
    /\ call.task \in TerminalConsumers
    /\ Len(executed) = 2
    /\ ready(TaskOf(tasks, call.task), exists)
    /\ call.task \notin Started

\* ----------------------------------------------------------------------
\* C33  Sequential run terminates: a sequential run call that has begun
\* eventually returns or raises, every invocation of a task function
\* returning or raising; the loop does not run the same task for ever.
C33_SequentialTerminates == (pc # "idle") ~> (pc = "idle")

\* ----------------------------------------------------------------------
\* No resource of the pipeline has two producers.
SingleProducers ==
    \A resource \in ResourcesOf(tasks) : Cardinality(Producers(tasks, resource)) <= 1

\* C34  Quiescence on return: when a parallel run call has returned
\* successfully, every task it handed to the worker pool has finished, the
\* writing of its outputs included (stated for the pipelines in which no
\* resource has two producers, where no task can find its outputs written
\* by another).
C34_QuiescentOnReturn ==
    (IsRun /\ call.parallelism = "threads" /\ Ended /\ result = "ok" /\ SingleProducers)
        => \A j \in jobs : j.call = ncalls => j.st = "done"

\* ----------------------------------------------------------------------
\* C35  Stale downstream artifacts survive a non-downstream undo: every
\* task being complete, undo(task=X, downstream=False) followed by run()
\* with no target starts no task but X, starts X when X has outputs and
\* the run returns successfully, and leaves the artifacts of the tasks
\* downstream of X in place.
C35_StaleDownstreamSurvives ==
    (IsRun /\ prev.call.op = "undo")
        => LET X == prev.call.task IN
           /\ Started \subseteq {X}
           /\ (Ended /\ result = "ok" /\ TaskOf(tasks, X).output # {}) => X \in Started
           /\ \A name \in Downstream(tasks, X) \ {X} :
                TaskOf(tasks, name).output \subseteq exists

\* ----------------------------------------------------------------------
\* The positions of the trace at which the body of a task starts (returns).
StartsOf(task) == {i \in 1..Len(trace) : trace[i] = <<task, "starts">>}
ReturnsOf(task) == {i \in 1..Len(trace) : trace[i] = <<task, "returns">>}
DagTasks == Decorated \cup UNION {Range(Dependencies(name)) : name \in Decorated}

\* Whenever a body has started, each dependency of its task had returned.
DependenciesFinishedFirst ==
    \A i \in 1..Len(trace) :
        trace[i][2] = "starts"
            => \A d \in Range(Dependencies(trace[i][1])) :
                   \E k \in ReturnsOf(d) : k < i

\* C36 as claimed: over any sequence of DAG.run calls the body of each
\* task starts at most once, and whenever a body starts each dependency of
\* its task has finished.
C36_AsClaimed ==
    /\ \A task \in DagTasks : Cardinality(StartsOf(task)) <= 1
    /\ DependenciesFinishedFirst

\* C36  DAG memoisation: over any sequence of DAG.run calls the body of
\* each task returns at most once and is not started again after it has
\* returned (the task is then in finished_tasks, once, and is skipped); a
\* task whose body raised is not recorded and may be started again by a
\* later call.  Whenever a body starts each dependency of its task has
\* finished.
C36_Memoised ==
    /\ \A task \in DagTasks :
         /\ Cardinality(ReturnsOf(task)) <= 1
         /\ \A i \in ReturnsOf(task) : \A k \in StartsOf(task) : k < i
         /\ Cardinality({i \in 1..Len(finished_tasks) : finished_tasks[i] = task})
              = Cardinality(ReturnsOf(task))
    /\ DependenciesFinishedFirst

\* Two DAG.run calls have been made and have ended; the first raised in a
\* task after one of its dependencies had finished, the second skipped the
\* finished dependency, started the task that had raised again, and every
\* task of the diamond has finished.
C36_Witness ==
    /\ ndagruns = 2 /\ frames = <<>>
    /\ Len(finished_tasks) = 4
    /\ \E task \in DagTasks :
         /\ Cardinality(StartsOf(task)) = 2
         /\ Dependencies(task) # <<>>
         /\ \A d \in Range(Dependencies(task)) : Cardinality(StartsOf(d)) = 1

=============================================================================
